---- MODULE Spec2Model ----
(***************************************************************************)
(* MT910 reconciliation (mt910_reconciliation_script.py): the MT910 parser *)
(* and the matching core reconcile().                                      *)
(*                                                                         *)
(* Optional values (Python None / NaN) are None == <<>> and Some(x) ==     *)
(* <<x>>.  An amount is the decimal literal it was read from, kept as the  *)
(* exact fraction <<num, den>>; wherever the program computes with it, the *)
(* IEEE-754 binary64 value Dbl(num, den) is used, as float() produces it.  *)
(*                                                                         *)
(* A string is a sequence of one-character strings.  A similarity score is *)
(* kept exactly, as the square of the cosine in lowest terms; the idf      *)
(* weights are the library's ln((1 + n) / (1 + df)) + 1 in tenths.  The    *)
(* rounding of the floating-point cosine itself is not modelled.           *)
(***************************************************************************)
EXTENDS Integers, Sequences, FiniteSets, TLC

None == <<>>
Some(x) == <<x>>
IsNull(o) == o = None
Val(o) == o[1]

(***************************************************************************)
(* binary64 arithmetic on fixed-point bit vectors (most significant bit    *)
(* first): IntBits integer bits, then FracBits fractional bits.            *)
(***************************************************************************)
Mantissa == 53
IntBits == 4
FracBits == 64
Width == IntBits + FracBits

RECURSIVE Pow2(_)
Pow2(k) == IF k = 0 THEN 1 ELSE 2 * Pow2(k - 1)

\* the IntBits-bit binary expansion of the integer q
IntPart(q) == [k \in 1..IntBits |-> (q \div Pow2(IntBits - k)) % 2]

\* 2^k modulo d, by repeated squaring
RECURSIVE Pow2Mod(_, _)
Pow2Mod(k, d) ==
    IF k = 0 THEN 1 % d
    ELSE LET h == Pow2Mod(k \div 2, d)
         IN  (((h * h) % d) * (IF k % 2 = 1 THEN 2 ELSE 1)) % d

\* remainder left after k binary digits of r/d have been produced, r < d
FracRem(r, d, k) == (r * Pow2Mod(k, d)) % d

\* the first k binary digits of the fraction r/d, r < d
FracPart(r, d, k) == [m \in 1..k |-> IF 2 * FracRem(r, d, m - 1) >= d THEN 1 ELSE 0]

\* position of the leading one of v, 0 when v is zero
Leading(v) ==
    IF \A k \in 1..Width : v[k] = 0 THEN 0
    ELSE CHOOSE k \in 1..Width : v[k] = 1 /\ \A m \in 1..(k - 1) : v[m] = 0

\* v plus one unit in position last (v has zeros after last)
AddUlp(v, last) ==
    LET z == CHOOSE k \in 1..last : v[k] = 0 /\ \A m \in (k + 1)..last : v[m] = 1
    IN  [k \in 1..Width |-> IF k < z THEN v[k] ELSE IF k = z THEN 1 ELSE 0]

\* round to nearest, ties to even, keeping Mantissa significant bits
RoundNearestEven(v, sticky) ==
    LET p == Leading(v)
        last == p + Mantissa - 1
    IN  IF p = 0 \/ last >= Width THEN v
        ELSE LET half == v[last + 1]
                 rest == sticky \/ \E k \in (last + 2)..Width : v[k] = 1
                 cut  == [k \in 1..Width |-> IF k <= last THEN v[k] ELSE 0]
             IN  IF half = 1 /\ (rest \/ v[last] = 1) THEN AddUlp(cut, last) ELSE cut

\* float("num/den"): the binary64 nearest to the decimal num/den
Dbl(num, den) ==
    LET r == num % den
        raw == IntPart(num \div den) \o FracPart(r, den, FracBits)
    IN  RoundNearestEven(raw, FracRem(r, den, FracBits) # 0)

LessEq(a, b) ==
    a = b \/ \E k \in 1..Width : a[k] < b[k] /\ \A m \in 1..(k - 1) : a[m] = b[m]

\* the borrow into position k when subtracting b from a: the bits of a
\* after position k read as a smaller number than those of b
Borrow(a, b, k) ==
    \E m \in (k + 1)..Width : a[m] < b[m] /\ \A p \in (k + 1)..(m - 1) : a[p] = b[p]

\* a - b for a >= b, exact, then rounded as the machine subtraction is
Minus(a, b) ==
    RoundNearestEven(
        [k \in 1..Width |-> (a[k] - b[k] - (IF Borrow(a, b, k) THEN 1 ELSE 0) + 2) % 2],
        FALSE)

\* abs(x - y) of two binary64 values
AbsDiff(x, y) == IF LessEq(y, x) THEN Minus(x, y) ELSE Minus(y, x)


(***************************************************************************)
(* datetime.date: a date is <<year, month, day>>; subtraction of two dates *)
(* is the difference of their proleptic Gregorian ordinals.                *)
(***************************************************************************)
IsLeap(y) == y % 4 = 0 /\ (y % 100 # 0 \/ y % 400 = 0)

DaysInMonth(y, m) ==
    IF m = 2 THEN (IF IsLeap(y) THEN 29 ELSE 28)
    ELSE IF m \in {4, 6, 9, 11} THEN 30 ELSE 31

RECURSIVE DaysBeforeMonth(_, _)
DaysBeforeMonth(y, m) ==
    IF m = 1 THEN 0 ELSE DaysBeforeMonth(y, m - 1) + DaysInMonth(y, m - 1)

Ordinal(d) ==
    LET y == d[1] - 1
    IN  y * 365 + y \div 4 - y \div 100 + y \div 400 + DaysBeforeMonth(d[1], d[2]) + d[3]

\* (a - b).days
DaysBetween(a, b) == Ordinal(a) - Ordinal(b)

Abs(n) == IF n < 0 THEN -n ELSE n

(***************************************************************************)
(* Text: a string is a sequence of one-character strings.                  *)
(***************************************************************************)
UpperCase == <<"A", "B", "C", "D", "P", "R", "S", "U">>
LowerCase == <<"a", "b", "c", "d", "p", "r", "s", "u">>
Digits == <<"0", "1", "2", "3", "4", "5", "6", "7", "8", "9">>

IsUpper(c) == \E k \in 1..Len(UpperCase) : UpperCase[k] = c
IsLower(c) == \E k \in 1..Len(LowerCase) : LowerCase[k] = c
IsDigit(c) == \E k \in 1..Len(Digits) : Digits[k] = c
DigitVal(c) == (CHOOSE k \in 1..Len(Digits) : Digits[k] = c) - 1

\* the characters \w matches
IsWordChar(c) == IsUpper(c) \/ IsLower(c) \/ IsDigit(c) \/ c = "_"

\* str.lower(), character by character
LowerChar(c) ==
    IF IsUpper(c)
    THEN LowerCase[CHOOSE k \in 1..Len(UpperCase) : UpperCase[k] = c]
    ELSE c

Lower(s) == [k \in 1..Len(s) |-> LowerChar(s[k])]

\* the maximal runs of word characters of s, in order
RECURSIVE WordRuns(_, _, _)
WordRuns(s, k, cur) ==
    LET done == IF cur = <<>> THEN <<>> ELSE <<cur>>
    IN  IF k > Len(s) THEN done
        ELSE IF IsWordChar(s[k]) THEN WordRuns(s, k + 1, Append(cur, s[k]))
        ELSE done \o WordRuns(s, k + 1, <<>>)

\* TfidfVectorizer's default analyzer: lower-case, then the matches of
\* token_pattern (?u)\b\w\w+\b, i.e. the runs of two or more word characters
Tokenize(s) == SelectSeq(WordRuns(Lower(s), 1, <<>>), LAMBDA w : Len(w) >= 2)

\* doc as a bag of terms: the number of times each of its terms occurs
TermCounts(doc) ==
    LET toks == Tokenize(doc)
    IN  [t \in {toks[k] : k \in 1..Len(toks)} |->
            Cardinality({k \in 1..Len(toks) : toks[k] = t})]

TermSet(doc) == DOMAIN TermCounts(doc)

\* the vocabulary fitted on a sequence of documents
Vocabulary(docs) == UNION {TermSet(docs[k]) : k \in 1..Len(docs)}

\* raw term frequency of term t in doc
Tf(doc, t) == IF t \in TermSet(doc) THEN TermCounts(doc)[t] ELSE 0

\* document frequency of term t in docs
Df(docs, t) == Cardinality({k \in 1..Len(docs) : t \in TermSet(docs[k])})

\* natural logarithm of 1..12, in tenths
LnTenths == <<0, 7, 11, 14, 16, 18, 19, 21, 22, 23, 24, 25>>

\* smoothed idf, ln((1 + n) / (1 + df)) + 1, in tenths
Idf(docs, t) == LnTenths[1 + Len(docs)] - LnTenths[1 + Df(docs, t)] + 10

\* TfidfVectorizer().fit(docs): the vocabulary and the idf of each term
Fit(docs) ==
    [vocabulary |-> Vocabulary(docs),
     idf |-> [t \in Vocabulary(docs) |-> Idf(docs, t)]]

\* vectorizer.transform(docs): one tf-idf vector per document, over the fitted
\* vocabulary; the l2 normalisation of each vector is applied in Cosine
Transform(vz, docs) ==
    [k \in 1..Len(docs) |-> [t \in vz.vocabulary |-> Tf(docs[k], t) * vz.idf[t]]]

\* inner product of two vectors over the terms in S
RECURSIVE InnerOver(_, _, _)
InnerOver(S, u, v) ==
    IF S = {} THEN 0
    ELSE LET t == CHOOSE x \in S : TRUE
         IN  u[t] * v[t] + InnerOver(S \ {t}, u, v)

Inner(u, v) == InnerOver(DOMAIN u, u, v)

RECURSIVE Gcd(_, _)
Gcd(a, b) == IF b = 0 THEN a ELSE Gcd(b, a % b)

\* a score is the exact square of the cosine, a fraction <<p, q>> in lowest
\* terms; squaring keeps the order, 0 and 1 of the cosines
Frac(p, q) == IF p = 0 THEN <<0, 1>> ELSE <<p \div Gcd(p, q), q \div Gcd(p, q)>>
Zero == <<0, 1>>
One == <<1, 1>>

\* a/b > c/d by continued fractions (no product is formed)
RECURSIVE FracGreater(_, _, _, _)
FracGreater(a, b, c, d) ==
    IF a \div b # c \div d THEN a \div b > c \div d
    ELSE IF a % b = 0 THEN FALSE
    ELSE IF c % d = 0 THEN TRUE
    ELSE FracGreater(d, c % d, b, a % b)

\* Cosine with only the first vector normalised
CosineHalfNormalised(u, v) ==
    LET d == Inner(u, v)
    IN  IF d = 0 THEN Zero ELSE Frac(d * d, Inner(u, u))

\* cosine of the l2-normalised vectors u and v; the zero vector normalises
\* to itself and scores 0
Cosine(u, v) ==
    LET d == Inner(u, v)
    IN  IF d = 0 THEN Zero ELSE Frac(d * d, Inner(u, u) * Inner(v, v))

\* cosine_similarity(X, Y): entry [r, c] for row r of X and row c of Y
CosineSimilarity(X, Y) == [r \in 1..Len(X), c \in 1..Len(Y) |-> Cosine(X[r], Y[c])]

(***************************************************************************)
(* parse_mt910_messages.  A message is the text that follows each of its   *)
(* tags :20:, :25:, :32A:, :86: up to the end of the line, None for a tag  *)
(* the message does not have.                                              *)
(***************************************************************************)
IsSpace(c) == c = " "

\* str.strip()
RECURSIVE StripLeft(_)
StripLeft(s) == IF s # <<>> /\ IsSpace(Head(s)) THEN StripLeft(Tail(s)) ELSE s

RECURSIVE StripRight(_)
StripRight(s) ==
    IF s # <<>> /\ IsSpace(s[Len(s)]) THEN StripRight(SubSeq(s, 1, Len(s) - 1)) ELSE s

Strip(s) == StripRight(StripLeft(s))

\* the characters of [\d,\.]
IsAmountChar(c) == IsDigit(c) \/ c = "," \/ c = "."

\* length of the longest prefix of s made of amount characters
RECURSIVE AmountRun(_)
AmountRun(s) == IF s # <<>> /\ IsAmountChar(Head(s)) THEN 1 + AmountRun(Tail(s)) ELSE 0

\* line 19: (\d{6})([A-Z]{3})([\d,\.]+) right after the tag; the groups, or None
Details(text) ==
    IF /\ Len(text) >= 10
       /\ \A k \in 1..6 : IsDigit(text[k])
       /\ \A k \in 7..9 : IsUpper(text[k])
       /\ IsAmountChar(text[10])
    THEN Some(<<SubSeq(text, 1, 6), SubSeq(text, 7, 9),
                SubSeq(text, 10, 9 + AmountRun(SubSeq(text, 10, Len(text))))>>)
    ELSE None

TwoDigits(s, k) == 10 * DigitVal(s[k]) + DigitVal(s[k + 1])

\* %y: 69..99 are 1969..1999, 0..68 are 2000..2068
Century(yy) == IF yy >= 69 THEN 1900 + yy ELSE 2000 + yy

\* line 27: strptime(date_str, '%y%m%d') raises ValueError
DateRaises(date_str) ==
    LET y == Century(TwoDigits(date_str, 1))
        m == TwoDigits(date_str, 3)
        d == TwoDigits(date_str, 5)
    IN  ~(m \in 1..12 /\ d >= 1 /\ d <= DaysInMonth(y, m))

\* lines 26-29
ParseDate(date_str) ==
    IF DateRaises(date_str) THEN None
    ELSE Some(<<Century(TwoDigits(date_str, 1)), TwoDigits(date_str, 3),
                TwoDigits(date_str, 5)>>)

\* line 25: .replace(',', '.')
ReplaceComma(s) == [k \in 1..Len(s) |-> IF s[k] = "," THEN "." ELSE s[k]]

Count(s, c) == Cardinality({k \in 1..Len(s) : s[k] = c})

\* line 38: float(amount) raises ValueError: amount is no decimal literal
FloatRaises(s) ==
    ~(/\ \A k \in 1..Len(s) : IsDigit(s[k]) \/ s[k] = "."
      /\ Count(s, ".") <= 1
      /\ \E k \in 1..Len(s) : IsDigit(s[k]))

RECURSIVE Pow10(_)
Pow10(k) == IF k = 0 THEN 1 ELSE 10 * Pow10(k - 1)

\* the number written by the digits of s, skipping the point
RECURSIVE DigitsValue(_)
DigitsValue(s) ==
    IF s = <<>> THEN 0
    ELSE IF s[Len(s)] = "." THEN DigitsValue(SubSeq(s, 1, Len(s) - 1))
    ELSE 10 * DigitsValue(SubSeq(s, 1, Len(s) - 1)) + DigitVal(s[Len(s)])

\* number of digits after the point
Decimals(s) ==
    IF Count(s, ".") = 0 THEN 0
    ELSE Len(s) - (CHOOSE k \in 1..Len(s) : s[k] = ".")

\* line 38: float(amount) for a decimal literal
ParseFloat(s) == Frac(DigitsValue(s), Pow10(Decimals(s)))

\* lines 17-40: a message raises out of the loop
MessageRaises(m) ==
    /\ ~IsNull(m.f32A)
    /\ ~IsNull(Details(Val(m.f32A)))
    /\ FloatRaises(ReplaceComma(Val(Details(Val(m.f32A)))[3]))

\* lines 17-40: the record appended for a message
ParseRecord(m) ==
    LET details == IF IsNull(m.f32A) THEN None ELSE Details(Val(m.f32A))
    IN  [reference |-> IF IsNull(m.f20) THEN <<>> ELSE Strip(Val(m.f20)),
         account   |-> IF IsNull(m.f25) THEN <<>> ELSE Strip(Val(m.f25)),
         date      |-> IF IsNull(details) THEN None ELSE ParseDate(Val(details)[1]),
         currency  |-> IF IsNull(details) THEN None ELSE Some(Val(details)[2]),
         amount    |-> IF IsNull(details) THEN None
                       ELSE Some(ParseFloat(ReplaceComma(Val(details)[3]))),
         narration |-> IF IsNull(m.f86) THEN <<>> ELSE Strip(Val(m.f86))]

(***************************************************************************)
(* Inputs of reconcile: the rows the two data frames are drawn from.       *)
(***************************************************************************)
MaxBank == 2
MaxLedger == 2

D0 == <<2024, 2, 28>>
D1 == <<2024, 2, 29>>
D2 == <<2024, 3, 1>>
D3 == <<2024, 3, 2>>

A100 == <<100, 100>>
A110 == <<110, 100>>
A120 == <<120, 100>>
A121 == <<121, 100>>

Empty == <<>>
Txt_a == <<"a">>
Txt_AB == <<"A", "B">>
Txt_ab == <<"a", "b">>
Txt_cd == <<"c", "d">>
Txt_ab_cd == <<"a", "b", " ", "c", "d">>

Bank(d, a, n) ==
    [reference |-> <<"R", "1">>, account |-> <<"A", "1">>, date |-> d,
     currency |-> Some(<<"U", "S", "D">>),
     amount |-> a, narration |-> n]

Ledger(d, a, n) == [date |-> d, amount |-> a, narration |-> n]

\* rows that differ in dates, amounts and nulls
ToleranceBank ==
    {Bank(Some(D1), Some(A110), Txt_ab_cd), Bank(None, Some(A110), Txt_ab_cd),
     Bank(Some(D1), None, Txt_ab_cd)}

ToleranceLedger ==
    {Ledger(Some(D1), Some(A110), Txt_cd), Ledger(Some(D1), Some(A110), Txt_ab_cd),
     Ledger(Some(D2), Some(A120), Txt_ab), Ledger(Some(D0), Some(A100), Txt_ab),
     Ledger(Some(D3), Some(A110), Txt_ab_cd), Ledger(Some(D1), Some(A121), Txt_ab_cd),
     Ledger(None, Some(A110), Txt_ab_cd), Ledger(Some(D1), None, Txt_ab_cd)}

\* rows that differ in narration
TextBank == {Bank(Some(D1), Some(A110), n) : n \in {Empty, Txt_a, Txt_AB, Txt_ab_cd}}

TextLedger ==
    {Ledger(Some(D1), Some(A110), n) : n \in {Empty, Txt_a, Txt_ab, Txt_cd, Txt_ab_cd}}

BankRows == ToleranceBank \cup TextBank
LedgerRows == ToleranceLedger \cup TextLedger

SeqsUpTo(S, n) == UNION {[1..k -> S] : k \in 0..n}

VARIABLES
    mt_df, app_df,          \* the two data frames (sequences of rows)
    mt_arg, app_arg,        \* the frames as the caller passed them
    vectorizer, mt_vec, app_vec, sim_matrix,
    i, j, best_score, best_idx,
    matched_index, sim_scores, matched_amount, matched_date, matched_narration,
    pc,
    messages, data, msg, ppc    \* parse_mt910_messages: the split content, the
                                \* records so far, the loop position

reconciling == <<mt_df, app_df, mt_arg, app_arg, vectorizer, mt_vec, app_vec, sim_matrix,
                 i, j, best_score, best_idx, matched_index, sim_scores, matched_amount,
                 matched_date, matched_narration, pc>>

parsing == <<messages, data, msg, ppc>>

vars == <<reconciling, parsing>>

scores == <<vectorizer, mt_vec, app_vec, sim_matrix>>

lists == <<matched_index, sim_scores, matched_amount, matched_date, matched_narration>>

Init ==
    /\ \/ /\ mt_df \in SeqsUpTo(ToleranceBank, MaxBank)
          /\ app_df \in SeqsUpTo(ToleranceLedger, MaxLedger)
       \/ /\ mt_df \in SeqsUpTo(TextBank, MaxBank)
          /\ app_df \in SeqsUpTo(TextLedger, MaxLedger)
    /\ mt_arg = mt_df
    /\ app_arg = app_df
    /\ vectorizer = None
    /\ mt_vec = <<>>
    /\ app_vec = <<>>
    /\ sim_matrix = <<>>
    /\ i = 0
    /\ j = 0
    /\ best_score = Zero
    /\ best_idx = -1
    /\ matched_index = <<>>
    /\ sim_scores = <<>>
    /\ matched_amount = <<>>
    /\ matched_date = <<>>
    /\ matched_narration = <<>>
    /\ pc = "start"
    /\ messages = <<>>
    /\ data = <<>>
    /\ msg = 0
    /\ ppc = "idle"

Narrations(df) == [k \in 1..Len(df) |-> df[k].narration]

\* line 54: mt_df['narration'] = mt_df['narration'].str.lower()
LowerNarration(df) == [k \in 1..Len(df) |-> [df[k] EXCEPT !.narration = Lower(@)]]

\* line 55: the documents the vectorizer is fitted on
Corpus(mt, app) == Narrations(mt) \o Narrations(app)

\* lines 55-59: fit raises ValueError on an empty vocabulary; transform and
\* cosine_similarity raise ValueError on a matrix with no rows
VectorizerRaises(mt, app) ==
    Vocabulary(Corpus(mt, app)) = {} \/ Len(mt) = 0 \/ Len(app) = 0

\* lines 54-59, the vectorizer raising
VectorizeRaises ==
    /\ pc = "start"
    /\ VectorizerRaises(LowerNarration(mt_df), app_df)
    /\ mt_df' = LowerNarration(mt_df)
    /\ pc' = "raised"
    /\ UNCHANGED <<app_df, mt_arg, app_arg, scores, i, j, best_score, best_idx, lists, parsing>>

\* lines 54-65
Vectorize ==
    /\ pc = "start"
    /\ ~VectorizerRaises(LowerNarration(mt_df), app_df)
    /\ mt_df' = LowerNarration(mt_df)
    /\ vectorizer' = Fit(Corpus(mt_df', app_df))
    /\ mt_vec' = Transform(vectorizer', Narrations(mt_df'))
    /\ app_vec' = Transform(vectorizer', Narrations(app_df))
    /\ sim_matrix' = CosineSimilarity(mt_vec', app_vec')
    /\ pc' = "row"
    /\ UNCHANGED <<app_df, mt_arg, app_arg, i, j, best_score, best_idx, lists, parsing>>

\* line 71
AnyNull(row, app_row) ==
    IsNull(row.date) \/ IsNull(app_row.date) \/ IsNull(row.amount) \/ IsNull(app_row.amount)

AmountTolerance == <<1, 10>>
DateTolerance == 1

Amounts == {Val(r.amount) : r \in {r \in BankRows \cup LedgerRows : ~IsNull(r.amount)}}

\* abs(a - b) <= 0.1 in binary64, tabulated once over the amounts in use
WithinTolerance ==
    [a \in Amounts, b \in Amounts |->
        LessEq(AbsDiff(Dbl(a[1], a[2]), Dbl(b[1], b[2])),
               Dbl(AmountTolerance[1], AmountTolerance[2]))]

\* line 76; on two floats and two dates lines 76-77 raise nothing, so the
\* except branch of lines 78-79 is never taken
amount_match(row, app_row) == WithinTolerance[Val(row.amount), Val(app_row.amount)]

\* line 77
date_match(row, app_row) ==
    Abs(DaysBetween(Val(row.date), Val(app_row.date))) <= DateTolerance

\* BeginRow with the running best starting below zero
BeginRowBelowZero ==
    /\ pc = "row"
    /\ i < Len(mt_df)
    /\ best_score' = <<-1, 1>>
    /\ best_idx' = -1
    /\ j' = 0
    /\ pc' = "scan"
    /\ UNCHANGED <<mt_df, app_df, mt_arg, app_arg, scores, i, lists, parsing>>

\* lines 67-69
BeginRow ==
    /\ pc = "row"
    /\ i < Len(mt_df)
    /\ best_score' = Zero
    /\ best_idx' = -1
    /\ j' = 0
    /\ pc' = "scan"
    /\ UNCHANGED <<mt_df, app_df, mt_arg, app_arg, scores, i, lists, parsing>>

\* score >= best_score in place of score > best_score
GreaterOrEqual(x, y) == ~FracGreater(y[1], y[2], x[1], x[2])

\* score > best_score (line 81)
Greater(x, y) == FracGreater(x[1], x[2], y[1], y[2])

\* Selects without the null check and the tolerances
SelectsOnScoreAlone(score, best, row, app_row) == FracGreater(score[1], score[2], best[1], best[2])

\* lines 71-72 and 81: the candidate passes the null check and replaces the
\* running best
Selects(score, best, row, app_row) ==
    /\ ~AnyNull(row, app_row)
    /\ Greater(score, best)
    /\ amount_match(row, app_row)
    /\ date_match(row, app_row)

\* lines 70-83, one iteration of the inner loop
Candidate ==
    /\ pc = "scan"
    /\ j < Len(app_df)
    /\ LET row     == mt_df[i + 1]
           app_row == app_df[j + 1]
           score   == sim_matrix[i + 1, j + 1]
       IN  IF Selects(score, best_score, row, app_row)
           THEN best_score' = score /\ best_idx' = j
           ELSE UNCHANGED <<best_score, best_idx>>
    /\ j' = j + 1
    /\ UNCHANGED <<mt_df, app_df, mt_arg, app_arg, scores, i, lists, pc, parsing>>

\* EndRow copying the fields of the last row scanned, not of row best_idx
EndRowLastScanned ==
    /\ pc = "scan"
    /\ j = Len(app_df)
    /\ IF best_idx # -1
       THEN /\ matched_index' = Append(matched_index, Some(best_idx))
            /\ sim_scores' = Append(sim_scores, best_score)
            /\ matched_amount' = Append(matched_amount, app_df[j].amount)
            /\ matched_date' = Append(matched_date, app_df[j].date)
            /\ matched_narration' = Append(matched_narration, Some(app_df[j].narration))
       ELSE /\ matched_index' = Append(matched_index, None)
            /\ sim_scores' = Append(sim_scores, Zero)
            /\ matched_amount' = Append(matched_amount, None)
            /\ matched_date' = Append(matched_date, None)
            /\ matched_narration' = Append(matched_narration, None)
    /\ i' = i + 1
    /\ pc' = "row"
    /\ UNCHANGED <<mt_df, app_df, mt_arg, app_arg, scores, j, best_score, best_idx, parsing>>

\* lines 85-96
EndRow ==
    /\ pc = "scan"
    /\ j = Len(app_df)
    /\ IF best_idx # -1
       THEN /\ matched_index' = Append(matched_index, Some(best_idx))
            /\ sim_scores' = Append(sim_scores, best_score)
            /\ matched_amount' = Append(matched_amount, app_df[best_idx + 1].amount)
            /\ matched_date' = Append(matched_date, app_df[best_idx + 1].date)
            /\ matched_narration' =
                   Append(matched_narration, Some(app_df[best_idx + 1].narration))
       ELSE /\ matched_index' = Append(matched_index, None)
            /\ sim_scores' = Append(sim_scores, Zero)
            /\ matched_amount' = Append(matched_amount, None)
            /\ matched_date' = Append(matched_date, None)
            /\ matched_narration' = Append(matched_narration, None)
    /\ i' = i + 1
    /\ pc' = "row"
    /\ UNCHANGED <<mt_df, app_df, mt_arg, app_arg, scores, j, best_score, best_idx, parsing>>

\* a row of mt_df with the five result columns set
WithResult(row, k) ==
    [reference |-> row.reference, account |-> row.account, date |-> row.date,
     currency |-> row.currency, amount |-> row.amount, narration |-> row.narration,
     matched_index |-> matched_index[k], similarity_score |-> sim_scores[k],
     matched_amount |-> matched_amount[k], matched_date |-> matched_date[k],
     matched_narration |-> matched_narration[k]]

\* lines 98-103
Return ==
    /\ pc = "row"
    /\ i = Len(mt_df)
    /\ mt_df' = [k \in 1..Len(mt_df) |-> WithResult(mt_df[k], k)]
    /\ pc' = "done"
    /\ UNCHANGED <<app_df, mt_arg, app_arg, scores, i, j, best_score, best_idx, lists, parsing>>

Next == VectorizeRaises \/ Vectorize \/ BeginRow \/ Candidate \/ EndRow \/ Return

Spec == Init /\ [][Next]_vars

(***************************************************************************)
(* Properties of reconcile.                                                *)
(***************************************************************************)
Scored == pc \in {"row", "scan", "done"}
Ended == pc \in {"done", "raised"}

BankCount == Len(mt_df)
LedgerCount == Len(app_df)

\* x > y on scores
Exceeds(x, y) == FracGreater(x[1], x[2], y[1], y[2])

BankNull(r) == IsNull(mt_df[r].date) \/ IsNull(mt_df[r].amount)
LedgerNull(c) == IsNull(app_df[c].date) \/ IsNull(app_df[c].amount)

\* the ledger positions among the first n that pass the filter for bank row r
EligibleCols(r, n) ==
    {c \in 1..n : /\ ~BankNull(r) /\ ~LedgerNull(c)
                  /\ amount_match(mt_df[r], app_df[c])
                  /\ date_match(mt_df[r], app_df[c])}

\* those of them with a positive score that no other of them exceeds
BestCols(r, n) ==
    {c \in EligibleCols(r, n) :
        /\ Exceeds(sim_matrix[r, c], Zero)
        /\ \A c2 \in EligibleCols(r, n) : ~Exceeds(sim_matrix[r, c2], sim_matrix[r, c])}

Least(S) == CHOOSE x \in S : \A y \in S : x <= y

\* the ledger index (from 0) the scan of the first n entries must hold, -1 for none
FirstBest(r, n) == IF BestCols(r, n) = {} THEN -1 ELSE Least(BestCols(r, n)) - 1

\* C1: a pair with a null date or amount is never selected: a bank record
\* with a null date or amount ends unmatched with score 0, and no ledger
\* entry with a null date or amount is a matched_index.
C1_NullNeverSelected ==
    /\ (pc = "scan" /\ best_idx # -1) => (~BankNull(i + 1) /\ ~LedgerNull(best_idx + 1))
    /\ \A k \in 1..Len(matched_index) :
          /\ BankNull(k) => (matched_index[k] = None /\ sim_scores[k] = Zero)
          /\ matched_index[k] # None => ~LedgerNull(Val(matched_index[k]) + 1)
    /\ pc = "done" =>
          \A k \in 1..BankCount :
             /\ BankNull(k) =>
                   (mt_df[k].matched_index = None /\ mt_df[k].similarity_score = Zero)
             /\ mt_df[k].matched_index # None =>
                   ~LedgerNull(Val(mt_df[k].matched_index) + 1)

\* reconcile returned, and a bank record and a ledger entry of score 1 with
\* equal dates or amounts where both have them, one of them null, were left
\* unmatched
C1_Witness ==
    /\ pc = "done"
    /\ \E k \in 1..BankCount, c \in 1..LedgerCount :
          /\ BankNull(k) \/ LedgerNull(c)
          /\ sim_matrix[k, c] = One
          /\ IsNull(mt_df[k].date) \/ IsNull(app_df[c].date) \/ mt_df[k].date = app_df[c].date
          /\ IsNull(mt_df[k].amount) \/ IsNull(app_df[c].amount)
                \/ mt_df[k].amount = app_df[c].amount
          /\ mt_df[k].matched_index = None

\* abs(a - b) <= 0.10 on the decimal amounts themselves
DecimalWithin(a, b) ==
    Abs(a[1] * b[2] - b[1] * a[2]) * AmountTolerance[2] <= AmountTolerance[1] * a[2] * b[2]

\* C2: a pair with non-null dates and amounts is a candidate exactly when the
\* amounts differ by at most 0.10 and the dates by at most 1 day, both
\* boundaries inclusive.
C2_InclusiveTolerances ==
    (pc = "scan" /\ j < LedgerCount /\ ~BankNull(i + 1) /\ ~LedgerNull(j + 1)) =>
        LET row     == mt_df[i + 1]
            app_row == app_df[j + 1]
        IN  (amount_match(row, app_row) /\ date_match(row, app_row))
            <=> /\ DecimalWithin(Val(row.amount), Val(app_row.amount))
                /\ Abs(DaysBetween(Val(row.date), Val(app_row.date))) <= 1

\* C3: scanning in ascending order the running best is replaced only by a
\* strictly greater score, starting from 0: at every point of the scan, and
\* in every result, the index held is the smallest among the eligible
\* candidates of maximal positive score, none when there is none.
C3_FirstMaxWins ==
    /\ pc = "scan" =>
          /\ best_idx = FirstBest(i + 1, j)
          /\ best_score = IF best_idx = -1 THEN Zero ELSE sim_matrix[i + 1, best_idx + 1]
    /\ Scored =>
          \A k \in 1..Len(matched_index) :
             matched_index[k] =
                IF FirstBest(k, LedgerCount) = -1 THEN None
                ELSE Some(FirstBest(k, LedgerCount))

\* reconcile returned, and a bank record with two eligible candidates of the
\* same maximal positive score got the earlier one
C3_Witness ==
    /\ pc = "done"
    /\ \E k \in 1..BankCount :
          /\ Cardinality(BestCols(k, LedgerCount)) >= 2
          /\ mt_df[k].matched_index = Some(Least(BestCols(k, LedgerCount)) - 1)

\* C4: an eligible candidate of score 0 never replaces the initial best: a
\* bank record all of whose eligible entries score 0 is unmatched, and every
\* match has a score above 0.
C4_ZeroNeverMatches ==
    /\ (pc = "scan" /\ best_idx # -1) => Exceeds(best_score, Zero)
    /\ Scored =>
          \A k \in 1..Len(matched_index) :
             /\ matched_index[k] # None => Exceeds(sim_scores[k], Zero)
             /\ (\A c \in EligibleCols(k, LedgerCount) : sim_matrix[k, c] = Zero) =>
                   (matched_index[k] = None /\ sim_scores[k] = Zero)

\* reconcile returned, and a bank record with an empty narration and an
\* eligible ledger entry is unmatched
C4_Witness ==
    /\ pc = "done"
    /\ \E k \in 1..BankCount :
          /\ mt_df[k].narration = <<>>
          /\ EligibleCols(k, LedgerCount) # {}
          /\ mt_df[k].matched_index = None
          /\ mt_df[k].similarity_score = Zero

\* the fields of a bank row as passed in
SameFields(row, orig) ==
    /\ row.reference = orig.reference
    /\ row.account = orig.account
    /\ row.date = orig.date
    /\ row.currency = orig.currency
    /\ row.amount = orig.amount
    /\ row.narration = orig.narration

\* C5: reconcile yields exactly one result per bank record, in input order,
\* carrying the record's original fields and its own match, for any number of
\* bank records and ledger entries.
C5_OneResultPerRecord ==
    Ended =>
        /\ pc = "done"
        /\ BankCount = Len(mt_arg)
        /\ \A k \in 1..BankCount :
              /\ SameFields(mt_df[k], mt_arg[k])
              /\ mt_df[k].matched_index = matched_index[k]
              /\ mt_df[k].similarity_score = sim_scores[k]

\* C6: reconcile does not mutate its inputs: when it has returned, both
\* frames hold what the caller passed.
C6_InputsUnchanged == pc = "done" => (mt_df = mt_arg /\ app_df = app_arg)

AllNarrationsEmpty ==
    /\ \A k \in 1..Len(mt_arg) : mt_arg[k].narration = <<>>
    /\ \A c \in 1..Len(app_arg) : app_arg[c].narration = <<>>

\* C7: with no bank records, no ledger entries or only empty narrations,
\* reconcile never raises and every bank record is unmatched with score 0.
C7_EmptyInputNeverRaises ==
    (Len(mt_arg) = 0 \/ Len(app_arg) = 0 \/ AllNarrationsEmpty) =>
        /\ pc # "raised"
        /\ pc = "done" =>
              \A k \in 1..BankCount :
                 mt_df[k].matched_index = None /\ mt_df[k].similarity_score = Zero

\* bank record k and ledger entry c carry the same narration, date and amount
Identical(k, c) ==
    /\ mt_arg[k].narration = app_df[c].narration
    /\ ~BankNull(k)
    /\ mt_df[k].date = app_df[c].date
    /\ mt_df[k].amount = app_df[c].amount

Unmatched(r) ==
    /\ r.matched_index = None
    /\ r.similarity_score = Zero
    /\ r.matched_amount = None
    /\ r.matched_date = None
    /\ r.matched_narration = None

MatchedTo(r, k) ==
    /\ r.matched_index # None
    /\ Val(r.matched_index) \in 0..(LedgerCount - 1)
    /\ LET c == Val(r.matched_index) + 1
       IN  /\ r.similarity_score = sim_matrix[k, c]
           /\ r.matched_amount = app_df[c].amount
           /\ r.matched_date = app_df[c].date
           /\ r.matched_narration = Some(app_df[c].narration)

\* C10: every result is either unmatched, with null index, score 0 and null
\* copies, or matched to a valid ledger position j, with the matrix entry of
\* (record, j) as score and the amount, date and narration of entry j.
C10_ResultConsistent ==
    pc = "done" => \A k \in 1..BankCount : Unmatched(mt_df[k]) \/ MatchedTo(mt_df[k], k)

\* reconcile returned a record matched to an entry that is not the last of
\* the ledger and differs from the last, and an unmatched record
C10_Witness ==
    /\ pc = "done"
    /\ \E k \in 1..BankCount :
          /\ MatchedTo(mt_df[k], k)
          /\ Val(mt_df[k].matched_index) + 1 < LedgerCount
          /\ app_df[Val(mt_df[k].matched_index) + 1] # app_df[LedgerCount]
    /\ \E k \in 1..BankCount : Unmatched(mt_df[k])

(***************************************************************************)
(* parse_mt910_messages, lines 13-42, from the messages the content splits *)
(* into.                                                                   *)
(***************************************************************************)
MaxMessages == 2

Date_240229 == <<"2", "4", "0", "2", "2", "9">>
Date_230229 == <<"2", "3", "0", "2", "2", "9">>
Date_241301 == <<"2", "4", "1", "3", "0", "1">>

Amount_1c10 == <<"1", ",", "1", "0">>
Amount_1p    == <<"1", ".">>
Amount_c     == <<",">>
Amount_1c0p5 == <<"1", ",", "0", ".", "5">>

Field32A ==
    {None, Some(<<"2", "4", "0", "2", "2", "U", "S", "D", "1">>)} \cup
    {Some(d \o <<"U", "S", "D">> \o a) :
        d \in {Date_240229, Date_230229, Date_241301},
        a \in {Amount_1c10, Amount_1p, Amount_c, Amount_1c0p5}}

Messages ==
    {[f20 |-> r, f25 |-> Some(<<"A", "1">>), f32A |-> f, f86 |-> n] :
        r \in {None, Some(<<" ", "R", "1">>)}, f \in Field32A,
        n \in {None, Some(<<"P", "a", " ", "A", "B", " ">>)}}

ParseInit ==
    /\ messages \in SeqsUpTo(Messages, MaxMessages)
    /\ data = <<>>
    /\ msg = 0
    /\ ppc = "loop"
    /\ mt_df = <<>>
    /\ app_df = <<>>
    /\ mt_arg = <<>>
    /\ app_arg = <<>>
    /\ vectorizer = None
    /\ mt_vec = <<>>
    /\ app_vec = <<>>
    /\ sim_matrix = <<>>
    /\ i = 0
    /\ j = 0
    /\ best_score = Zero
    /\ best_idx = -1
    /\ matched_index = <<>>
    /\ sim_scores = <<>>
    /\ matched_amount = <<>>
    /\ matched_date = <<>>
    /\ matched_narration = <<>>
    /\ pc = "idle"

\* lines 16-40, one message
ParseMessage ==
    /\ ppc = "loop"
    /\ msg < Len(messages)
    /\ ~MessageRaises(messages[msg + 1])
    /\ data' = Append(data, ParseRecord(messages[msg + 1]))
    /\ msg' = msg + 1
    /\ UNCHANGED <<messages, ppc, reconciling>>

\* line 38 raising ValueError, which nothing in the function catches
ParseMessageRaises ==
    /\ ppc = "loop"
    /\ msg < Len(messages)
    /\ MessageRaises(messages[msg + 1])
    /\ ppc' = "raised"
    /\ UNCHANGED <<messages, data, msg, reconciling>>

\* line 42
ParseReturn ==
    /\ ppc = "loop"
    /\ msg = Len(messages)
    /\ ppc' = "done"
    /\ UNCHANGED <<messages, data, msg, reconciling>>

ParseNext == ParseMessage \/ ParseMessageRaises \/ ParseReturn

ParseSpec == ParseInit /\ [][ParseNext]_vars

(***************************************************************************)
(* Properties of parse_mt910_messages.                                     *)
(***************************************************************************)
\* C8: a message whose date or amount fails to parse yields a record with
\* that field null and the other fields kept, no exception reaches the
\* caller, and a message without :32A: yields null date, currency, amount.
C8_MalformedFieldIsNull ==
    /\ ppc # "raised"
    /\ \A k \in 1..Len(data) :
          LET m == messages[k]
              r == data[k]
              details == IF IsNull(m.f32A) THEN None ELSE Details(Val(m.f32A))
          IN  /\ r.reference = (IF IsNull(m.f20) THEN <<>> ELSE Strip(Val(m.f20)))
              /\ r.narration = (IF IsNull(m.f86) THEN <<>> ELSE Strip(Val(m.f86)))
              /\ IsNull(details) =>
                    (r.date = None /\ r.currency = None /\ r.amount = None)
              /\ ~IsNull(details) =>
                    /\ r.currency = Some(Val(details)[2])
                    /\ DateRaises(Val(details)[1]) => r.date = None
                    /\ FloatRaises(ReplaceComma(Val(details)[3])) => r.amount = None

====
